---------------------------- MODULE Spec2Model ----------------------------
(***************************************************************************)
(* Model of src/src/communicate.rs: the Communicator that exchanges data   *)
(* with a child process over its stdin/stdout/stderr pipes.                *)
(*                                                                         *)
(* Both backends are modelled: the poll loop (mod os, cfg(unix)) and the   *)
(* worker threads with a bounded channel (mod os, cfg(windows)).  The      *)
(* backend, the set of supplied streams and the input payload are chosen   *)
(* in Init and then stay fixed; the size limit and the time limit are      *)
(* chosen in Init and can be set again between two read calls.             *)
(*                                                                         *)
(* The environment is the three pipes and a child that copies its stdin    *)
(* to its stdout byte by byte, writes some bytes to stderr and exits.      *)
(* Bytes are small integers, distinct within a stream, so that order,      *)
(* loss and duplication are visible.                                       *)
(***************************************************************************)
EXTENDS Integers, Sequences, FiniteSets, TLC

\* ------------------------------------------------------------ bounds
\* Longest input payload (bytes the child echoes).
MaxInput == 3
\* Most bytes the child writes to stderr.
MaxErrOut == 1
\* Capacity of an OS pipe, in bytes.
PipeCap == 2
\* Largest size limit tried (limit_size).
MaxLimit == 2
\* Stand-in for the 4096-byte write chunk of the poll loop.
WRITE_SIZE == 2
\* Stand-in for the 4096-byte read buffer of do_read / read_and_transmit.
BUF_SIZE == 2
\* Whole seconds tried on each side of the first duration whose millisecond
\* count needs more than 32 bits.
ClockSpread == 3

\* ------------------------------------------------------------ constants
\* mpsc::sync_channel(1): the channel buffers one message.
ChanCap == 1

Streams == {"in", "out", "err"}
Outputs == {"out", "err"}

\* ------------------------------------------------------------ helpers
Min(a, b) == IF a < b THEN a ELSE b
Take(s, n) == SubSeq(s, 1, n)
DropN(s, n) == SubSeq(s, n + 1, Len(s))

\* Option<T>: None carries a default so that all values have one shape.
Some(x) == [some |-> TRUE, v |-> x]
NoneOf(d) == [some |-> FALSE, v |-> d]

\* The payload / child stdin content of length n: bytes 1..n.
Payload(n) == [i \in 1..n |-> i]
\* The child's stderr output of length k: bytes 11..10+k.
ErrBytes(k) == [i \in 1..k |-> 10 + i]

NoLeftover == [some |-> FALSE, ident |-> "out", data |-> << >>]
\* No result: before the first call, and while a call is running.
NoResult == [status |-> "none", out |-> NoneOf(<< >>), err |-> NoneOf(<< >>)]

\* Deadline arithmetic.  A u32 or u64 value v is held as two 16-bit limbs,
\* v = hi * Limb + lo, so that values up to and beyond 2^32 can be computed.
Limb == 2^16
Word(h, l) == [hi |-> h, lo |-> l]
\* The deadline of a call seen from the moment of a poll: it has passed,
\* or it lies secs seconds and millis milliseconds ahead.
Passed == [passed |-> TRUE, secs |-> 0, millis |-> 0]
Ahead(s, m) == [passed |-> FALSE, secs |-> s, millis |-> m]
\* No timeout computed yet.
NoTimeout == NoneOf([panic |-> FALSE, val |-> Word(0, 0)])

VARIABLES
    \* configuration; limit_size and limit_time set the two limits
    backend,      \* "poll" (unix) or "worker" (windows)
    req,          \* the streams supplied at construction
    size_limit,   \* Communicator.size_limit : Option<usize>
    time_limit,   \* Communicator.time_limit is Some
    src,          \* what the child finds on its stdin (the payload when piped)
    errsrc,       \* what the child writes to stderr
    \* the deadline arithmetic of the poll backend
    time_left,   \* t - now at the moment millisecs_until is called
    timeout,      \* what millisecs_until returned, once it was called
    \* environment
    pipe,         \* pipe[s]: bytes in the OS pipe of stream s
    in_wclosed,   \* the write end of the child's stdin is closed
    rclosed,      \* output pipes whose read end is closed
    broken,       \* streams on which the next I/O call fails; "poll" when
                  \* the next poll call fails
    cpc, cerr,         \* the child: running or exited, stderr bytes left
    \* poll backend (os::Communicator, unix)
    stdin, input_data, input_pos, stdout_ref, stderr_ref, ready,
    \* worker backend (os::Communicator, windows)
    helper_set, leftover, chan, wpc, wbuf,
    \* the read call in progress
    ppc, expired, dropped, outvec, errvec, result,
    \* history
    got_out, got_err,      \* all stdout / stderr bytes returned so far
    taken_out, taken_err,  \* bytes the latest call took from its source
    sent_in,               \* bytes the child's stdin pipe has accepted
    fin,                   \* handles that reached EOF, finished writing or failed
    reused                 \* finished handles that were polled or used again

clockvars == <<time_left, timeout>>
cfgvars == <<backend, req, size_limit, time_limit, src, errsrc, clockvars>>
envvars == <<pipe, in_wclosed, rclosed, broken, cpc, cerr>>
pollvars == <<stdin, input_data, input_pos, stdout_ref, stderr_ref, ready>>
workvars == <<helper_set, leftover, chan, wpc, wbuf>>
callvars == <<ppc, expired, dropped, outvec, errvec, result>>
histvars == <<got_out, got_err, taken_out, taken_err, sent_in, fin, reused>>
vars == <<cfgvars, envvars, pollvars, workvars, callvars, histvars>>

\* requested_streams: the output streams supplied to new().
requested_streams == req \cap Outputs

\* ------------------------------------------------------------ Init
\* communicate() / Communicator::new / os::Communicator::new.
InitComm(max_input, max_err) ==
    /\ backend \in {"poll", "worker"}
    /\ req \in SUBSET Streams
    /\ size_limit \in {NoneOf(0)} \cup {Some(q) : q \in 0..MaxLimit}
    /\ time_limit \in BOOLEAN
    /\ \E n \in 0..max_input : src = Payload(n)
    /\ \E k \in 0..max_err : errsrc = ErrBytes(k)
    \* without a stdin pipe the child reads src from elsewhere, up to EOF
    /\ pipe = [s \in Streams |-> IF s = "in" /\ "in" \notin req THEN src ELSE << >>]
    /\ in_wclosed = ("in" \notin req)
    /\ rclosed = {}
    /\ broken = {}
    /\ cpc = "run"
    /\ cerr = errsrc
    /\ stdin = (backend = "poll" /\ "in" \in req)
    /\ input_data = IF "in" \in req THEN src ELSE << >>
    /\ input_pos = 0
    /\ stdout_ref = FALSE
    /\ stderr_ref = FALSE
    /\ ready = {}
    /\ helper_set = IF backend = "worker" THEN req ELSE {}
    /\ leftover = NoLeftover
    /\ chan = << >>
    /\ wpc = [s \in Streams |->
                IF backend = "worker" /\ s \in req
                THEN (IF s = "in" THEN "write" ELSE "read")
                ELSE "none"]
    /\ wbuf = [s \in Streams |->
                IF backend = "worker" /\ s = "in" /\ s \in req THEN src ELSE << >>]
    /\ ppc = "idle"
    /\ expired = FALSE
    /\ dropped = FALSE
    /\ outvec = << >>
    /\ errvec = << >>
    /\ result = NoResult
    /\ got_out = << >>
    /\ got_err = << >>
    /\ taken_out = << >>
    /\ taken_err = << >>
    /\ sent_in = << >>
    /\ fin = {}
    /\ reused = {}

\* In the communication specifications the clock is the flag `expired`
\* (see Tick); the deadline arithmetic is not exercised there.
Init ==
    /\ InitComm(MaxInput, MaxErrOut)
    /\ time_left = Passed
    /\ timeout = NoTimeout

\* ------------------------------------------------------------ the child
\* The child is `cat` followed by a write to stderr; it may also write its
\* stderr bytes between two reads.  A write to a full pipe blocks it.

\* Where the child's writes to stream s go: a pipe of the communicator, or
\* somewhere that never blocks.
Piped(s) == s \in req

\* One turn of the child's copy loop: read(0, ..) returned a byte and
\* write(1, ..) passes it on.  The write blocks while the pipe is full, so
\* the turn waits for room; SIGPIPE when nobody reads.
ChildEcho ==
    /\ cpc = "run"
    /\ pipe["in"] # << >>
    /\ IF "out" \in rclosed
       THEN cpc' = "exited" /\ pipe' = [pipe EXCEPT !["in"] = Tail(@)]
       ELSE IF ~Piped("out")
       THEN cpc' = cpc /\ pipe' = [pipe EXCEPT !["in"] = Tail(@)]
       ELSE /\ Len(pipe["out"]) < PipeCap
            /\ pipe' = [pipe EXCEPT !["in"] = Tail(@),
                                    !["out"] = @ \o << Head(pipe["in"]) >>]
            /\ cpc' = cpc
    /\ UNCHANGED <<cfgvars, in_wclosed, rclosed, broken, cerr, pollvars,
                   workvars, callvars, histvars>>

\* write(2, ..) of one byte, at any point of the child's run.
ChildWriteErr ==
    /\ cpc = "run"
    /\ cerr # << >>
    /\ IF "err" \in rclosed
       THEN cpc' = "exited" /\ pipe' = pipe
       ELSE IF ~Piped("err")
       THEN cpc' = cpc /\ pipe' = pipe
       ELSE /\ Len(pipe["err"]) < PipeCap
            /\ pipe' = [pipe EXCEPT !["err"] = @ \o << Head(cerr) >>]
            /\ cpc' = cpc
    /\ cerr' = Tail(cerr)
    /\ UNCHANGED <<cfgvars, in_wclosed, rclosed, broken, pollvars,
                   workvars, callvars, histvars>>

\* End of input and nothing left to write: the child exits, which closes
\* its ends of the pipes.
ChildExit ==
    /\ cpc = "run"
    /\ pipe["in"] = << >>
    /\ in_wclosed
    /\ cerr = << >>
    /\ cpc' = "exited"
    /\ UNCHANGED <<cfgvars, pipe, in_wclosed, rclosed, broken, cerr,
                   pollvars, workvars, callvars, histvars>>

\* End of stream on an output pipe: empty, and the child has exited.
AtEOF(s) == pipe[s] = << >> /\ cpc = "exited"
\* A write of chunk to the child's stdin fails: injected fault, or no reader
\* (EPIPE); a zero-length write to a pipe without a reader returns Ok(0).
WriteFails(chunk) == "in" \in broken \/ (cpc = "exited" /\ chunk # << >>)

\* What can fail: the I/O on a stream, and the poll call itself.
Faults == Streams \cup {"poll"}

\* An I/O fault during a read call.  On a supplied stream: its next read or
\* write fails.  On "poll" (poll backend): the next posix::poll call fails,
\* e.g. with EINTR.
Fault(s) ==
    /\ broken = {}
    /\ ppc \notin {"idle", "panicked"}
    /\ IF s = "poll" THEN backend = "poll" ELSE s \in req /\ s \notin fin
    /\ broken' = {s}
    /\ UNCHANGED <<cfgvars, pipe, in_wclosed, rclosed, cpc, cerr,
                   pollvars, workvars, callvars, histvars>>

\* Time passes: the deadline of the read call in progress is reached.  The
\* deadline is looked at only at the head of the loop.
Tick ==
    /\ time_limit
    /\ ppc = "loop"
    /\ ~expired
    /\ expired' = TRUE
    /\ UNCHANGED <<cfgvars, envvars, pollvars, workvars, ppc, dropped, outvec,
                   errvec, result, histvars>>

\* ------------------------------------------------------------ the facade
\* Communicator::read: the pair the backend returned becomes Ok(capture) or
\* Err(CommunicateError {error, capture}).
read_result_drop(error, capture) ==
    IF error = "ok"
    THEN [status |-> error, out |-> capture[1], err |-> capture[2]]
    ELSE [status |-> error,
          out |-> [capture[1] EXCEPT !.v = << >>],
          err |-> [capture[2] EXCEPT !.v = << >>]]

read_result(error, capture) ==
    [status |-> error, out |-> capture[1], err |-> capture[2]]

\* A read call returns: the caller now holds the capture.
Return(error, capture) ==
    /\ result' = read_result(error, capture)
    /\ got_out' = got_out \o result'.out.v
    /\ got_err' = got_err \o result'.err.v
    /\ ppc' = "idle"
    /\ expired' = FALSE
    /\ outvec' = << >>
    /\ errvec' = << >>
    /\ ready' = {}
    /\ stdout_ref' = FALSE
    /\ stderr_ref' = FALSE

\* ------------------------------------------------------------ poll backend
\* os::Communicator::read (unix): a stream is Some in the result when its
\* handle was supplied; self.stdout and self.stderr are never taken.
output_refs(ov, ev) ==
    << IF stdout_ref THEN Some(ov) ELSE NoneOf(<< >>),
       IF stderr_ref THEN Some(ev) ELSE NoneOf(<< >>) >>

output(ov, ev) ==
    << IF "out" \in req THEN Some(ov) ELSE NoneOf(<< >>),
       IF "err" \in req THEN Some(ev) ELSE NoneOf(<< >>) >>

\* The descriptors handed to poll: the handles that are still Some.
Interest_stdin_first ==
    IF stdin THEN {"in"}
    ELSE (IF stdout_ref THEN {"out"} ELSE {})
            \cup (IF stderr_ref THEN {"err"} ELSE {})

Interest ==
    (IF stdin THEN {"in"} ELSE {})
        \cup (IF stdout_ref THEN {"out"} ELSE {})
        \cup (IF stderr_ref THEN {"err"} ELSE {})

\* The events poll(2) can report for the pipe of stream s.  The write end is
\* POLLOUT while the pipe has room and POLLERR once its reader is gone; a
\* read end is POLLIN while it holds data and POLLHUP once its writer is
\* gone.  A faulty descriptor is flagged POLLERR, with or without POLLHUP.
Events(s) ==
    IF s = "in"
    THEN (IF Len(pipe["in"]) < PipeCap THEN {"POLLOUT"} ELSE {})
            \cup (IF cpc = "exited" THEN {"POLLERR"} ELSE {})
    ELSE (IF pipe[s] # << >> THEN {"POLLIN"} ELSE {})
            \cup (IF cpc = "exited" THEN {"POLLHUP"} ELSE {})

Revents ==
    {[s \in Interest |-> IF s \in broken THEN Events(s) \cup e ELSE Events(s)] :
        e \in {{"POLLERR"}, {"POLLERR", "POLLHUP"}}}

\* PollFd::test(mask): some flag of the mask is set in revents.
test(revents, mask) == revents \cap mask # {}

\* posix::poll returns once a descriptor has an event, or at the deadline.
poll_returns(rev) == (\E s \in DOMAIN rev : rev[s] # {}) \/ (time_limit /\ expired)

\* poll3: the descriptors reported ready, POLLOUT | POLLHUP for stdin and
\* POLLIN | POLLHUP for stdout and stderr.
poll3(rev) ==
    {s \in DOMAIN rev :
        IF s = "in"
        THEN test(rev[s], {"POLLOUT", "POLLHUP"})
        ELSE test(rev[s], {"POLLIN", "POLLHUP"})}

\* The next transfer of one loop iteration: stdin, then stdout, then stderr.
NextStep(after, r) ==
    IF after = "loop" /\ "in" \in r THEN "write"
    ELSE IF after \in {"loop", "write"} /\ "out" \in r THEN "rdout"
    ELSE IF after \in {"loop", "write", "rdout"} /\ "err" \in r THEN "rderr"
    ELSE "loop"

\* do_read: one read of at most BUF_SIZE bytes, cut to what the size limit
\* leaves; a zero-length read clears the handle reference.
do_read_uncut(s, source_ref, dest, total_read) ==
    IF size_limit.some /\ total_read >= size_limit.v
    THEN [error |-> FALSE, source_ref |-> source_ref, dest |-> dest,
          n |-> 0, called |-> FALSE]
    ELSE LET n == Min(BUF_SIZE, Len(pipe[s]))
         IN  IF s \in broken
             THEN [error |-> TRUE, source_ref |-> source_ref, dest |-> dest,
                   n |-> 0, called |-> TRUE]
             ELSE IF n # 0
             THEN [error |-> FALSE, source_ref |-> source_ref,
                   dest |-> dest \o Take(pipe[s], n), n |-> n, called |-> TRUE]
             ELSE [error |-> FALSE, source_ref |-> FALSE, dest |-> dest,
                   n |-> 0, called |-> TRUE]

do_read(s, source_ref, dest, total_read) ==
    IF size_limit.some /\ total_read >= size_limit.v
    THEN [error |-> FALSE, source_ref |-> source_ref, dest |-> dest,
          n |-> 0, called |-> FALSE]
    ELSE LET buflen == IF size_limit.some /\ size_limit.v - total_read < BUF_SIZE
                       THEN size_limit.v - total_read
                       ELSE BUF_SIZE
             n == Min(buflen, Len(pipe[s]))
         IN  IF s \in broken
             THEN [error |-> TRUE, source_ref |-> source_ref, dest |-> dest,
                   n |-> 0, called |-> TRUE]
             ELSE IF n # 0
             THEN [error |-> FALSE, source_ref |-> source_ref,
                   dest |-> dest \o Take(pipe[s], n), n |-> n, called |-> TRUE]
             ELSE [error |-> FALSE, source_ref |-> FALSE, dest |-> dest,
                   n |-> 0, called |-> TRUE]

\* "When no stream remains, we are done."
no_stream_remains_outputs == ~stdout_ref /\ ~stderr_ref

no_stream_remains == ~stdin /\ ~stdout_ref /\ ~stderr_ref

\* The chunk handed to one write call: &input[..min(WRITE_SIZE, input.len())].
write_chunk_whole(input) == input

write_chunk(input) == Take(input, Min(WRITE_SIZE, Len(input)))

\* self.input_pos += n, n being what the write call accepted.
advance_chunk(pos, n) == pos + WRITE_SIZE

advance(pos, n) == pos + n

\* "close stdin when done writing": the cursor reached the end of the input.
input_written_any(pos, data) == pos > 0 \/ data = << >>

input_written(pos, data) == pos = Len(data)

\* Communicator::read -> os::Communicator::read -> read_into, up to the loop.
PollBegin ==
    /\ backend = "poll"
    /\ ppc = "idle"
    /\ ~dropped
    /\ ppc' = "loop"
    /\ expired' = FALSE
    /\ outvec' = << >>
    /\ errvec' = << >>
    /\ stdout_ref' = ("out" \in req)
    /\ stderr_ref' = ("err" \in req)
    /\ taken_out' = << >>
    /\ taken_err' = << >>
    /\ result' = NoResult
    /\ UNCHANGED <<cfgvars, envvars, stdin, input_data, input_pos, ready,
                   workvars, dropped, got_out, got_err, sent_in, fin, reused>>

\* The head of one iteration of read_into's loop: the size-limit test, the
\* "no stream remains" test, and poll3.  poll blocks until a descriptor has
\* an event or the deadline is reached; with no descriptor reported ready
\* the call fails with TimedOut.  When posix::poll itself fails, `?` hands
\* the error out of poll3 and of read_into, and the call fails with it.
PollLoop ==
    /\ backend = "poll"
    /\ ppc = "loop"
    /\ IF size_limit.some /\ Len(outvec) + Len(errvec) >= size_limit.v
       THEN Return("ok", output(outvec, errvec)) /\ UNCHANGED <<reused, broken>>
       ELSE IF no_stream_remains
       THEN Return("ok", output(outvec, errvec)) /\ UNCHANGED <<reused, broken>>
       ELSE /\ reused' = reused \cup (Interest \cap fin)
            /\ IF "poll" \in broken
               THEN /\ Return("io", output(outvec, errvec))
                    /\ broken' = broken \ {"poll"}
               ELSE /\ broken' = broken
                    /\ \E rev \in Revents :
                        /\ poll_returns(rev)
                        /\ IF poll3(rev) # {}
                           THEN /\ ready' = poll3(rev)
                                /\ ppc' = NextStep("loop", poll3(rev))
                                /\ UNCHANGED <<expired, outvec, errvec, result,
                                               got_out, got_err, stdout_ref,
                                               stderr_ref>>
                           ELSE Return("timeout", output(outvec, errvec))
    /\ UNCHANGED <<cfgvars, pipe, in_wclosed, rclosed, cpc, cerr, stdin,
                   input_data, input_pos, workvars, dropped, taken_out,
                   taken_err, sent_in, fin>>

\* The write step: a chunk of at most WRITE_SIZE bytes from the cursor; the
\* pipe accepts n of them; stdin is closed once the cursor reaches the end.
PollWrite ==
    /\ backend = "poll"
    /\ ppc = "write"
    /\ LET input == DropN(input_data, input_pos)
           chunk == write_chunk(input)
           room == PipeCap - Len(pipe["in"])
       IN  /\ reused' = reused \cup ({"in"} \cap fin)
           /\ IF WriteFails(chunk)
              THEN /\ Return("io", output(outvec, errvec))
                   /\ fin' = fin \cup {"in"}
                   /\ UNCHANGED <<pipe, in_wclosed, stdin, input_data, input_pos,
                                  sent_in>>
              ELSE \E n \in (IF chunk = << >> THEN {0} ELSE 1..Min(Len(chunk), room)) :
                   /\ pipe' = [pipe EXCEPT !["in"] = @ \o Take(chunk, n)]
                   /\ sent_in' = sent_in \o Take(chunk, n)
                   /\ input_pos' = advance(input_pos, n)
                   /\ IF input_written(input_pos', input_data)
                      THEN /\ stdin' = FALSE
                           /\ in_wclosed' = TRUE
                           /\ input_data' = << >>
                           /\ fin' = fin \cup {"in"}
                      ELSE UNCHANGED <<stdin, in_wclosed, input_data, fin>>
                   /\ ppc' = NextStep("write", ready)
                   /\ ready' = IF ppc' = "loop" THEN {} ELSE ready
                   /\ UNCHANGED <<expired, outvec, errvec, result, got_out,
                                  got_err, stdout_ref, stderr_ref>>
    /\ UNCHANGED <<cfgvars, rclosed, broken, cpc, cerr, workvars, dropped,
                   taken_out, taken_err>>

\* The stdout step: do_read(&mut stdout_ref, &mut outvec, size_limit, total).
PollReadOut ==
    /\ backend = "poll"
    /\ ppc = "rdout"
    /\ LET r == do_read("out", stdout_ref, outvec, Len(outvec) + Len(errvec))
       IN  \* a read of an empty pipe whose writer lives would block
           /\ (r.called /\ ~r.error /\ r.n = 0) => AtEOF("out")
           /\ reused' = IF r.called THEN reused \cup ({"out"} \cap fin) ELSE reused
           /\ IF r.error
              THEN /\ Return("io", output(outvec, errvec))
                   /\ fin' = fin \cup {"out"}
                   /\ UNCHANGED <<pipe, taken_out>>
              ELSE /\ outvec' = r.dest
                   /\ stdout_ref' = r.source_ref
                   /\ pipe' = [pipe EXCEPT !["out"] = DropN(@, r.n)]
                   /\ taken_out' = taken_out \o Take(pipe["out"], r.n)
                   /\ fin' = IF r.called /\ r.n = 0 THEN fin \cup {"out"} ELSE fin
                   /\ ppc' = NextStep("rdout", ready)
                   /\ ready' = IF ppc' = "loop" THEN {} ELSE ready
                   /\ UNCHANGED <<expired, errvec, result, got_out, got_err,
                                  stderr_ref>>
    /\ UNCHANGED <<cfgvars, in_wclosed, rclosed, broken, cpc, cerr, stdin,
                   input_data, input_pos, workvars, dropped, taken_err, sent_in>>

\* The stderr step: do_read(&mut stderr_ref, &mut errvec, size_limit, total).
PollReadErr ==
    /\ backend = "poll"
    /\ ppc = "rderr"
    /\ LET r == do_read("err", stderr_ref, errvec, Len(outvec) + Len(errvec))
       IN  \* a read of an empty pipe whose writer lives would block
           /\ (r.called /\ ~r.error /\ r.n = 0) => AtEOF("err")
           /\ reused' = IF r.called THEN reused \cup ({"err"} \cap fin) ELSE reused
           /\ IF r.error
              THEN /\ Return("io", output(outvec, errvec))
                   /\ fin' = fin \cup {"err"}
                   /\ UNCHANGED <<pipe, taken_err>>
              ELSE /\ errvec' = r.dest
                   /\ stderr_ref' = r.source_ref
                   /\ pipe' = [pipe EXCEPT !["err"] = DropN(@, r.n)]
                   /\ taken_err' = taken_err \o Take(pipe["err"], r.n)
                   /\ fin' = IF r.called /\ r.n = 0 THEN fin \cup {"err"} ELSE fin
                   /\ ppc' = "loop"
                   /\ ready' = {}
                   /\ UNCHANGED <<expired, outvec, result, got_out, got_err,
                                  stdout_ref>>
    /\ UNCHANGED <<cfgvars, in_wclosed, rclosed, broken, cpc, cerr, stdin,
                   input_data, input_pos, workvars, dropped, taken_out, sent_in>>

\* ------------------------------------------------------------ worker backend
\* as_options: a stream is Some when it is in requested_streams.
as_options(ov, ev) ==
    << IF "out" \in requested_streams THEN Some(ov) ELSE NoneOf(<< >>),
       IF "err" \in requested_streams THEN Some(ev) ELSE NoneOf(<< >>) >>

\* The grow_result closure: admit data of stream ident into the call's
\* vectors, storing what the size limit cuts off as the leftover.  ret is
\* the closure's result: FALSE when the call has to stop.
grow_result(ident, data, ov, ev, lo) ==
    IF size_limit.some /\ Len(ov) + Len(ev) >= size_limit.v
    THEN [ret |-> FALSE, outvec |-> ov, errvec |-> ev, leftover |-> lo]
    ELSE LET remaining == size_limit.v - (Len(ov) + Len(ev))
             cut == size_limit.some /\ Len(data) > remaining
             lo2 == IF cut
                    THEN [some |-> TRUE, ident |-> ident,
                          data |-> DropN(data, remaining)]
                    ELSE lo
             d2 == IF cut THEN Take(data, remaining) ELSE data
             ov2 == IF ident = "out" THEN ov \o d2 ELSE ov
             ev2 == IF ident = "err" THEN ev \o d2 ELSE ev
         IN  [ret |-> ~(size_limit.some /\ Len(ov2) + Len(ev2) >= size_limit.v),
              outvec |-> ov2, errvec |-> ev2, leftover |-> lo2]

\* A message of the channel: (StreamIdent, Payload).
Message(ident, kind, data) == [ident |-> ident, kind |-> kind, data |-> data]

\* The worker of stream s holds its SyncSender: it was spawned and has not
\* yet dropped the sender on its way out.
HoldsSender(s) == wpc[s] \notin {"none", "close", "exited"}

\* Every SyncSender is gone.
Disconnected == \A s \in Streams : ~HoldsSender(s)

\* read_and_transmit, outfile.read(&mut chunk): a chunk, end of stream or
\* an error; the read blocks while the pipe is empty and the child lives.
ReaderRead(s) ==
    /\ s \in Outputs
    /\ wpc[s] = "read"
    /\ reused' = reused \cup ({s} \cap fin)
    /\ IF s \in broken
       THEN /\ wpc' = [wpc EXCEPT ![s] = "send_err"]
            /\ fin' = fin \cup {s}
            /\ UNCHANGED <<pipe, wbuf>>
       ELSE IF pipe[s] # << >>
       THEN /\ wbuf' = [wbuf EXCEPT ![s] = Take(pipe[s], Min(BUF_SIZE, Len(pipe[s])))]
            /\ pipe' = [pipe EXCEPT ![s] = DropN(@, Min(BUF_SIZE, Len(@)))]
            /\ wpc' = [wpc EXCEPT ![s] = "send_data"]
            /\ fin' = fin
       ELSE /\ AtEOF(s)
            /\ wpc' = [wpc EXCEPT ![s] = "send_eof"]
            /\ fin' = fin \cup {s}
            /\ UNCHANGED <<pipe, wbuf>>
    /\ UNCHANGED <<cfgvars, in_wclosed, rclosed, broken, cpc, cerr,
                   pollvars, helper_set, leftover, chan, callvars, got_out,
                   got_err, taken_out, taken_err, sent_in>>

\* write_stdin, stdin.write_all(&input_data): blocking writes until the
\* whole payload is in the pipe, or a write fails.
WriterWrite ==
    /\ wpc["in"] = "write"
    /\ reused' = reused \cup ({"in"} \cap fin)
    /\ IF wbuf["in"] = << >>
       THEN /\ wpc' = [wpc EXCEPT !["in"] = "send_eof"]
            /\ fin' = fin \cup {"in"}
            /\ UNCHANGED <<pipe, wbuf, sent_in>>
       ELSE IF WriteFails(wbuf["in"])
       THEN /\ wpc' = [wpc EXCEPT !["in"] = "send_err"]
            /\ fin' = fin \cup {"in"}
            /\ UNCHANGED <<pipe, wbuf, sent_in>>
       ELSE /\ Len(pipe["in"]) < PipeCap
            /\ LET n == Min(Len(wbuf["in"]), PipeCap - Len(pipe["in"]))
               IN  /\ pipe' = [pipe EXCEPT !["in"] = @ \o Take(wbuf["in"], n)]
                   /\ sent_in' = sent_in \o Take(wbuf["in"], n)
                   /\ wbuf' = [wbuf EXCEPT !["in"] = DropN(@, n)]
            /\ UNCHANGED <<wpc, fin>>
    /\ UNCHANGED <<cfgvars, in_wclosed, rclosed, broken, cpc, cerr,
                   pollvars, helper_set, leftover, chan, callvars, got_out,
                   got_err, taken_out, taken_err>>

\* What a worker does after its send: a reader whose data message was sent
\* reads on; after EOF, an error, or a failed send the worker leaves its
\* function ("ret").
AfterSend_ignore(kind, sent) ==
    IF kind = "send_data" THEN "read" ELSE "ret"

AfterSend(kind, sent) ==
    IF kind = "send_data" /\ sent THEN "read" ELSE "ret"

\* The worker's file is dropped (closed).
CloseFile(s) ==
    /\ in_wclosed' = IF s = "in" THEN TRUE ELSE in_wclosed
    /\ rclosed' = IF s \in Outputs THEN rclosed \cup {s} ELSE rclosed

\* mpsc::sync_channel(1): a send goes through while the buffer has room, and
\* blocks otherwise.
can_send_unbounded(c) == TRUE

can_send(c) == Len(c) < ChanCap

\* sink.send(..) / tx.send(..) succeeds: the channel has room.
WorkerSend(s) ==
    /\ wpc[s] \in {"send_data", "send_eof", "send_err"}
    /\ ~dropped
    /\ can_send(chan)
    /\ chan' = Append(chan, Message(s, wpc[s],
                                    IF wpc[s] = "send_data" THEN wbuf[s] ELSE << >>))
    /\ wbuf' = [wbuf EXCEPT ![s] = << >>]
    /\ wpc' = [wpc EXCEPT ![s] = AfterSend(wpc[s], TRUE)]
    /\ UNCHANGED <<cfgvars, envvars, pollvars, helper_set, leftover, callvars,
                   histvars>>

\* sink.send(..) / tx.send(..) fails: the receiver is gone.
WorkerSendFail(s) ==
    /\ wpc[s] \in {"send_data", "send_eof", "send_err"}
    /\ dropped
    /\ wbuf' = [wbuf EXCEPT ![s] = << >>]
    /\ wpc' = [wpc EXCEPT ![s] = AfterSend(wpc[s], FALSE)]
    /\ UNCHANGED <<cfgvars, envvars, pollvars, helper_set, leftover, chan,
                   callvars, histvars>>

\* The worker leaves its function after the send returned.  Its values are
\* dropped in reverse order of declaration: first the sender (the last
\* parameter) ...
WorkerReturn(s) ==
    /\ wpc[s] = "ret"
    /\ wpc' = [wpc EXCEPT ![s] = "close"]
    /\ UNCHANGED <<cfgvars, envvars, pollvars, helper_set, leftover, chan,
                   wbuf, callvars, histvars>>

\* ... then the file, which closes the worker's end of the pipe.
WorkerClose(s) ==
    /\ wpc[s] = "close"
    /\ wpc' = [wpc EXCEPT ![s] = "exited"]
    /\ CloseFile(s)
    /\ UNCHANGED <<cfgvars, pipe, broken, cpc, cerr, pollvars, helper_set,
                   leftover, chan, wbuf, callvars, histvars>>

\* os::Communicator::read (windows), up to the message loop: the leftover
\* of the previous call is taken and admitted first.
WorkerBegin ==
    /\ backend = "worker"
    /\ ppc = "idle"
    /\ ~dropped
    /\ LET g == IF leftover.some
                THEN grow_result(leftover.ident, leftover.data, << >>, << >>,
                                 NoLeftover)
                ELSE [ret |-> TRUE, outvec |-> << >>, errvec |-> << >>,
                      leftover |-> NoLeftover]
       IN  /\ leftover' = g.leftover
           /\ taken_out' = IF leftover.some /\ leftover.ident = "out"
                           THEN leftover.data ELSE << >>
           /\ taken_err' = IF leftover.some /\ leftover.ident = "err"
                           THEN leftover.data ELSE << >>
           /\ IF ~g.ret
              THEN Return("ok", as_options(g.outvec, g.errvec))
              ELSE /\ ppc' = "loop"
                   /\ expired' = FALSE
                   /\ outvec' = g.outvec
                   /\ errvec' = g.errvec
                   /\ result' = NoResult
                   /\ UNCHANGED <<got_out, got_err, ready, stdout_ref,
                                  stderr_ref>>
    /\ UNCHANGED <<cfgvars, envvars, stdin, input_data, input_pos, helper_set,
                   chan, wpc, wbuf, dropped, sent_in, fin, reused>>

\* recv_until on channel content c: Err(Timeout) when the deadline has been
\* reached, else the next message; the receive blocks ("wait") while the
\* channel is empty, and finds it disconnected when no sender is left.
recv_until_late(c) ==
    IF c # << >>
    THEN [res |-> IF time_limit /\ expired THEN "Timeout" ELSE "Ok",
          chan |-> Tail(c)]
    ELSE IF time_limit /\ expired
    THEN [res |-> "Timeout", chan |-> c]
    ELSE IF Disconnected
    THEN [res |-> "Disconnected", chan |-> c]
    ELSE [res |-> "wait", chan |-> c]

recv_until(c) ==
    IF time_limit /\ expired
    THEN [res |-> "Timeout", chan |-> c]
    ELSE IF c # << >>
    THEN [res |-> "Ok", chan |-> Tail(c)]
    ELSE IF Disconnected
    THEN [res |-> "Disconnected", chan |-> c]
    ELSE [res |-> "wait", chan |-> c]

\* The end-of-stream arm: self.helper_set &= !(ident as u8).
clear_helper_all(hs, ident) == {}

clear_helper(hs, ident) == hs \ {ident}

\* One iteration of `while self.helper_set != 0`: recv_until and the match
\* on what it returned.
WorkerLoop ==
    /\ backend = "worker"
    /\ ppc = "loop"
    /\ IF helper_set = {}
       THEN /\ Return("ok", as_options(outvec, errvec))
            /\ UNCHANGED <<helper_set, leftover, chan, taken_out, taken_err>>
       ELSE LET r == recv_until(chan)
                m == Head(chan)
                g == grow_result(m.ident, m.data, outvec, errvec, leftover)
            IN  /\ r.res # "wait"
                /\ chan' = r.chan
                /\ CASE r.res = "Timeout" ->
                        /\ Return("timeout", as_options(outvec, errvec))
                        /\ UNCHANGED <<helper_set, leftover, taken_out, taken_err>>
                     [] r.res = "Disconnected" ->
                        /\ ppc' = "panicked"
                        /\ UNCHANGED <<helper_set, leftover, expired, outvec,
                                       errvec, result, got_out, got_err,
                                       taken_out, taken_err, ready, stdout_ref,
                                       stderr_ref>>
                     [] r.res = "Ok" /\ m.kind = "send_eof" ->
                        /\ helper_set' = clear_helper(helper_set, m.ident)
                        /\ UNCHANGED <<leftover, ppc, expired, outvec, errvec,
                                       result, got_out, got_err, taken_out,
                                       taken_err, ready, stdout_ref, stderr_ref>>
                     [] r.res = "Ok" /\ m.kind = "send_err" ->
                        /\ Return("io", as_options(outvec, errvec))
                        /\ UNCHANGED <<helper_set, leftover, taken_out, taken_err>>
                     [] r.res = "Ok" /\ m.kind = "send_data" ->
                        /\ leftover' = g.leftover
                        /\ helper_set' = helper_set
                        /\ taken_out' = IF m.ident = "out"
                                        THEN taken_out \o m.data ELSE taken_out
                        /\ taken_err' = IF m.ident = "err"
                                        THEN taken_err \o m.data ELSE taken_err
                        /\ IF g.ret
                           THEN /\ outvec' = g.outvec
                                /\ errvec' = g.errvec
                                /\ UNCHANGED <<ppc, expired, result, got_out,
                                               got_err, ready, stdout_ref,
                                               stderr_ref>>
                           ELSE Return("ok", as_options(g.outvec, g.errvec))
    /\ UNCHANGED <<cfgvars, envvars, stdin, input_data, input_pos, wpc, wbuf,
                   dropped, sent_in, fin, reused>>

\* The caller drops the Communicator between two calls: the poll backend
\* closes its three files; the worker backend drops the receiver, and the
\* files stay with the workers.
Drop ==
    /\ ppc = "idle"
    /\ ~dropped
    /\ dropped' = TRUE
    /\ chan' = << >>
    /\ IF backend = "poll"
       THEN /\ stdin' = FALSE
            /\ in_wclosed' = TRUE
            /\ rclosed' = requested_streams
       ELSE UNCHANGED <<stdin, in_wclosed, rclosed>>
    /\ UNCHANGED <<cfgvars, pipe, broken, cpc, cerr, input_data, input_pos,
                   stdout_ref, stderr_ref, ready, helper_set, leftover, wpc,
                   wbuf, ppc, expired, outvec, errvec, result, histvars>>

\* Communicator::limit_size(size), called between two read calls.
limit_size(size) ==
    /\ ppc = "idle"
    /\ ~dropped
    /\ size_limit # Some(size)
    /\ size_limit' = Some(size)
    /\ UNCHANGED <<backend, req, time_limit, src, errsrc, clockvars, envvars,
                   pollvars, workvars, callvars, histvars>>

\* Communicator::limit_time(time), called between two read calls: the
\* following calls have a deadline.
limit_time ==
    /\ ppc = "idle"
    /\ ~dropped
    /\ ~time_limit
    /\ time_limit' = TRUE
    /\ UNCHANGED <<backend, req, size_limit, src, errsrc, clockvars, envvars,
                   pollvars, workvars, callvars, histvars>>

\* ------------------------------------------------------------ millisecs_until
\* diff.as_secs() * 1000, a u64 product (exact for the durations tried).
as_millis(secs) ==
    LET a1 == secs \div Limb
        a0 == secs % Limb
        p0 == a0 * 1000
    IN  Word(a1 * 1000 + p0 \div Limb, p0 % Limb)

\* `as u32`: the low 32 bits.
as_u32(w) == Word(w.hi % Limb, w.lo)

\* u32 + u32: the wrapped sum, and whether the addition overflowed.
add_u32(w, n) ==
    LET l == w.lo + n
        h == w.hi + l \div Limb
    IN  [overflow |-> h >= Limb, val |-> Word(h % Limb, l % Limb)]

\* millisecs_until(t) with diff = t - now.  `checked` is the build's
\* overflow-checks setting: an overflowing `+` panics when it is on and
\* wraps when it is off.
millisecs_until(diff, checked) ==
    IF diff.passed
    THEN [panic |-> FALSE, val |-> Word(0, 0)]
    ELSE LET sum == add_u32(as_u32(as_millis(diff.secs)), diff.millis)
         IN  [panic |-> checked /\ sum.overflow, val |-> sum.val]

\* poll3 computes the poll timeout: deadline.map(millisecs_until).
PollTimeout ==
    /\ ~timeout.some
    /\ \E checked \in BOOLEAN :
           timeout' = Some(millisecs_until(time_left, checked))
    /\ UNCHANGED <<backend, req, size_limit, time_limit, src, errsrc,
                   time_left, envvars, pollvars, workvars, callvars, histvars>>

\* ------------------------------------------------------------ specification
\* The steps of the thread that calls read.
CallStep ==
    \/ PollLoop
    \/ PollWrite
    \/ PollReadOut
    \/ PollReadErr
    \/ WorkerLoop

\* The steps of the worker thread of stream s.
WorkerStep(s) ==
    \/ ReaderRead(s)
    \/ s = "in" /\ WriterWrite
    \/ WorkerSend(s)
    \/ WorkerReturn(s)
    \/ WorkerClose(s)

\* The steps of the child process.
ChildStep ==
    \/ ChildEcho
    \/ ChildWriteErr
    \/ ChildExit

\* Read calls with any size limit and time limit, a time limit set between
\* two calls, and I/O faults.
Next ==
    \/ PollBegin
    \/ WorkerBegin
    \/ CallStep
    \/ \E s \in Streams : WorkerStep(s)
    \/ ChildStep
    \/ \E s \in Faults : Fault(s)
    \/ Tick
    \/ limit_time

Spec == Init /\ [][Next]_vars

\* Unlimited read calls and the drop of the Communicator, with every
\* thread and the child scheduled fairly.
InitLive ==
    /\ Init
    /\ ~size_limit.some
    /\ ~time_limit

NextLive ==
    \/ PollBegin
    \/ WorkerBegin
    \/ CallStep
    \/ \E s \in Streams : WorkerStep(s)
    \/ \E s \in Streams : WorkerSendFail(s)
    \/ ChildStep
    \/ Drop

Fairness ==
    /\ WF_vars(CallStep)
    /\ WF_vars(ChildStep)
    /\ \A s \in Streams : WF_vars(WorkerStep(s) \/ WorkerSendFail(s))

LiveSpec == InitLive /\ [][NextLive]_vars /\ Fairness

\* Unlimited read calls under pipe pressure, with every thread and the child
\* scheduled fairly.  The input can be long enough to fill the stdin pipe
\* and the stdout pipe and still leave the parent with bytes to write, and
\* the stderr output can be longer than its pipe holds.
PressureMaxInput == 2 * PipeCap + 1
PressureMaxErrOut == PipeCap + 1

InitPressure ==
    /\ InitComm(PressureMaxInput, PressureMaxErrOut)
    /\ time_left = Passed
    /\ timeout = NoTimeout
    /\ ~size_limit.some
    /\ ~time_limit

PressureNext ==
    \/ PollBegin
    \/ WorkerBegin
    \/ CallStep
    \/ \E s \in Streams : WorkerStep(s)
    \/ ChildStep

PressureFairness ==
    /\ WF_vars(CallStep)
    /\ WF_vars(ChildStep)
    /\ \A s \in Streams : WF_vars(WorkerStep(s))

PressureSpec == InitPressure /\ [][PressureNext]_vars /\ PressureFairness

\* Repeated read calls with a fixed size limit and time limit, no faults:
\* the caller keeps calling read, and every thread and the child are
\* scheduled fairly.  Nothing is assumed about the deadlines: every call
\* with a time limit may find its deadline passed at once.
ResumeNext ==
    \/ PollBegin
    \/ WorkerBegin
    \/ CallStep
    \/ \E s \in Streams : WorkerStep(s)
    \/ ChildStep
    \/ Tick

ResumeFairness ==
    /\ WF_vars(PollBegin \/ WorkerBegin)
    /\ WF_vars(CallStep)
    /\ WF_vars(ChildStep)
    /\ \A s \in Streams : WF_vars(WorkerStep(s))

ResumeSpec == Init /\ [][ResumeNext]_vars /\ ResumeFairness

\* Read calls whose limits the caller sets between calls: the size limit
\* anew before any call, the time limit (none at first) once; no faults.
InitReconf ==
    /\ Init
    /\ ~time_limit

ReconfNext ==
    \/ PollBegin
    \/ WorkerBegin
    \/ CallStep
    \/ \E s \in Streams : WorkerStep(s)
    \/ ChildStep
    \/ \E size \in 0..MaxLimit : limit_size(size)
    \/ limit_time
    \/ Tick

ReconfSpec == InitReconf /\ [][ReconfNext]_vars

\* The deadline arithmetic on its own: one Communicator with a time limit
\* on the poll backend, whose deadline has passed or lies a short or a
\* long time ahead; the long durations surround WrapSecs, the first number
\* of whole seconds whose millisecond count does not fit in 32 bits.
WrapSecs == (Limb \div 1000) * Limb + ((Limb % 1000) * Limb) \div 1000
SecsTried == (0..ClockSpread) \cup ((WrapSecs - ClockSpread)..(WrapSecs + ClockSpread))
MillisTried == {0, 1, 295, 296, 999}

InitClock ==
    /\ InitComm(MaxInput, MaxErrOut)
    /\ backend = "poll"
    /\ req = {"out"}
    /\ ~size_limit.some
    /\ time_limit
    /\ errsrc = << >>
    /\ time_left \in {Passed} \cup {Ahead(s, m) : s \in SecsTried, m \in MillisTried}
    /\ timeout = NoTimeout

ClockNext == PollTimeout

ClockSpec == InitClock /\ [][ClockNext]_vars

\* ------------------------------------------------------------ properties
InCall == ppc \notin {"idle", "panicked"}

\* What the child writes to each supplied output stream.
ExpectedOut == IF "out" \in req THEN src ELSE << >>
ExpectedErr == IF "err" \in req THEN errsrc ELSE << >>

\* Output stream s is finished: the child has exited, and its pipe, the
\* worker's buffer, the channel and the leftover hold nothing of it.
Finished(s) ==
    /\ AtEOF(s)
    /\ wbuf[s] = << >>
    /\ \A i \in 1..Len(chan) : chan[i].ident # s
    /\ ~(leftover.some /\ leftover.ident = s)

\* Every requested output stream is finished.
Drained == \A s \in requested_streams : Finished(s)

\* The communicator is done: every requested output stream is finished, and
\* the whole payload went into the child's stdin, whose handle is finished.
Done ==
    /\ Drained
    /\ "in" \in req => (sent_in = src /\ "in" \in fin)

\* C2 (as stated). Quota resumability: with a size limit and no fault, once
\* the calls have drained every stream, the concatenation of the returned
\* stdout captures is exactly what the child wrote to stdout, and likewise
\* for stderr.
C2_QuotaResumable ==
    (size_limit.some /\ broken = {} /\ ppc = "idle" /\ result.status = "ok"
        /\ Drained)
    => (got_out = ExpectedOut /\ got_err = ExpectedErr)

\* C3. Quota bound: with a size limit, the stdout and stderr vectors of a
\* call, while it runs and in the result it returns, hold at most that
\* many bytes together.
C3_QuotaBound ==
    size_limit.some =>
        /\ Len(outvec) + Len(errvec) <= size_limit.v
        /\ Len(result.out.v) + Len(result.err.v) <= size_limit.v

\* A call returned exactly its quota while more output was waiting.
C3_Witness ==
    /\ size_limit.some
    /\ size_limit.v > 0
    /\ ppc = "idle"
    /\ Len(result.out.v) + Len(result.err.v) = size_limit.v
    /\ (leftover.some \/ pipe["out"] # << >>)

\* C5. An unlimited read (no size limit, no time limit) returns success
\* only when the communicator is done.
C5_UnlimitedSuccessIsDone ==
    (~size_limit.some /\ ~time_limit /\ result.status = "ok") => Done

\* An unlimited read returned success after writing the whole payload and
\* capturing both outputs.
C5_Witness ==
    /\ ~size_limit.some
    /\ ~time_limit
    /\ result.status = "ok"
    /\ req = Streams
    /\ Len(src) > PipeCap
    /\ result.out.v = src
    /\ result.err.v = errsrc
    /\ errsrc # << >>

\* C6. A failing read (timeout or I/O error) carries exactly the stdout and
\* stderr bytes the call had read before the failure.
C6_FailureCarriesCapture ==
    (ppc = "idle" /\ result.status \in {"timeout", "io"})
    => (result.out.v = taken_out /\ result.err.v = taken_err)

\* A read failed with an I/O error after it had captured stdout bytes.
C6_Witness ==
    /\ ppc = "idle"
    /\ result.status = "io"
    /\ result.out.v # << >>

\* C7. Stream presence: in every result, stdout is Some exactly when
\* stdout was supplied at construction, and likewise stderr.
C7_StreamPresence ==
    result.status # "none" =>
        /\ result.out.some <=> "out" \in req
        /\ result.err.some <=> "err" \in req

\* A later call returned after stdout had already reached end of stream:
\* stdout is present and empty, stderr was never supplied.
C7_Witness ==
    /\ result.status = "ok"
    /\ "out" \in req
    /\ "err" \notin req
    /\ "out" \in fin
    /\ got_out # << >>
    /\ result.out = Some(<< >>)
    /\ ~result.err.some

\* C9 (as stated). A finished handle (end of stream, write completed, or
\* error) is never polled, read from or written to again.
C9_FinishedIsTerminal == reused = {}

\* The step by which a read call returns a timeout failure.
TimeoutReturn == InCall /\ ppc' = "idle" /\ result'.status = "timeout"

\* C4. Timeout is recoverable: the step that returns a timeout hands the
\* bytes the call captured to the caller and leaves the session state (the
\* active-stream mask, the leftover, the channel and the workers; the input
\* cursor, the input and the open handles) and the pipes as they were; and
\* with a time limit and no size limit, once every stream is drained the
\* captures of all calls together are exactly what the child wrote.
C4_TimeoutRecoverable ==
    /\ [][TimeoutReturn =>
            /\ result'.out.v = taken_out
            /\ result'.err.v = taken_err
            /\ got_out' = got_out \o outvec
            /\ got_err' = got_err \o errvec
            /\ UNCHANGED <<helper_set, leftover, chan, wpc, wbuf>>
            /\ UNCHANGED <<stdin, input_data, input_pos, in_wclosed>>
            /\ UNCHANGED <<pipe, fin, sent_in>>]_vars
    /\ []((time_limit /\ ~size_limit.some /\ broken = {} /\ ppc = "idle"
            /\ Drained)
          => (got_out = ExpectedOut /\ got_err = ExpectedErr))

\* A call timed out with part of stdout captured and the rest still to come.
C4_Witness ==
    /\ ppc = "idle"
    /\ result.status = "timeout"
    /\ result.out.v # << >>
    /\ Len(got_out) < Len(src)

\* The call in progress has nothing left to do: the size limit is reached
\* or no stream remains active.
CallFinished ==
    \/ size_limit.some /\ Len(outvec) + Len(errvec) >= size_limit.v
    \/ backend = "poll" /\ no_stream_remains
    \/ backend = "worker" /\ helper_set = {}

\* C8 (as stated). With a time limit, a call that is not finished when its
\* deadline has passed stops: the next step of its loop returns a timeout
\* failure instead of transferring more data.
C8_DeadlineStops ==
    [][(time_limit /\ expired /\ ppc = "loop" /\ ~CallFinished
            /\ <<ppc, helper_set, outvec, errvec>>' # <<ppc, helper_set, outvec, errvec>>)
        => (ppc' = "idle" /\ result'.status = "timeout")]_vars

\* The parent still has input to hand to the child's stdin.
InputPending ==
    IF backend = "poll"
    THEN stdin /\ input_pos < Len(input_data)
    ELSE wpc["in"] = "write" /\ wbuf["in"] # << >>

\* Parent and child are in mutual backpressure: the child cannot go on, its
\* stdout pipe being full (and its stderr pipe too, with more to write),
\* and the parent cannot write, the stdin pipe being full while input is
\* pending.  Only the parent's reading gets the two out of it.
Backpressure ==
    /\ InCall
    /\ req = Streams
    /\ cpc = "run"
    /\ InputPending
    /\ Len(pipe["in"]) = PipeCap
    /\ Len(pipe["out"]) = PipeCap
    /\ Len(pipe["err"]) = PipeCap
    /\ cerr # << >>

\* C1. No deadlock: an unlimited read call always returns, and returns
\* success, whatever streams were supplied and however long the input is,
\* on both backends; parent and child never stay blocked on full pipes.
C1_NoDeadlock == InCall ~> (ppc = "idle" /\ result.status = "ok")

\* The poll loop has just filled the stdin pipe, with input still pending,
\* while the child cannot write: all three pipes are full.
C1_Witness == Backpressure /\ backend = "poll"

Sending(s) == wpc[s] \in {"send_data", "send_eof", "send_err"}

\* C10. After the receiver is dropped, a worker that is in a send sees the
\* send fail and returns: its next step leaves its function, and it goes
\* on to drop its sender and its file and to exit.
C10_DropReleasesWorkers ==
    /\ [][\A s \in Streams :
            (dropped /\ Sending(s) /\ wpc'[s] # wpc[s]) => wpc'[s] = "ret"]_vars
    /\ \A s \in Streams : (dropped /\ Sending(s)) ~> (wpc[s] = "exited")

\* The receiver was dropped and the stdout worker has returned although the
\* child is still running: the worker left through a failed send.
C10_Witness ==
    /\ dropped
    /\ wpc["out"] = "exited"
    /\ wpc["err"] = "exited"
    /\ cpc # "exited"

\* C11 (as stated). In the worker backend a receive never finds the channel
\* disconnected: whenever the loop waits on an empty channel with the
\* active-stream mask non-empty, a worker that still holds a sender exists,
\* and no call ends in the unreachable!() / unwrap panic.
C11_NeverDisconnected ==
    /\ ppc # "panicked"
    /\ (backend = "worker" /\ ppc = "loop" /\ helper_set # {} /\ chan = << >>)
        => ~Disconnected

\* What the call that just returned holds of stream s in the leftover.
LeftoverOf(s) == IF leftover.some /\ leftover.ident = s THEN leftover.data ELSE << >>

\* C18 (as stated). Per-call conservation in the worker backend: when a call
\* returns, the bytes it took from the leftover and from data messages are,
\* stream by stream, the returned capture followed by the stored leftover.
C18_PerCallConservation ==
    (backend = "worker" /\ ppc = "idle" /\ result.status # "none")
    => /\ taken_out = result.out.v \o LeftoverOf("out")
       /\ taken_err = result.err.v \o LeftoverOf("err")

\* C19. Completion is detectable under a quota: a read call with a size limit
\* that returns success with fewer bytes than the limit found the
\* communicator done.
C19_ShortSuccessIsDone ==
    (size_limit.some /\ ppc = "idle" /\ result.status = "ok"
        /\ Len(result.out.v) + Len(result.err.v) < size_limit.v)
    => Done

\* A limited call returned success short of its limit after earlier calls
\* had stopped on the quota, with input, stdout and stderr all supplied.
C19_Witness ==
    /\ size_limit.some
    /\ ppc = "idle"
    /\ result.status = "ok"
    /\ Len(result.out.v) + Len(result.err.v) < size_limit.v
    /\ req = Streams
    /\ Len(got_out) + Len(got_err) > size_limit.v
    /\ got_out = src
    /\ got_err = errsrc

\* The poll loop is at its write step; the input from the cursor on.
WriteCall == backend = "poll" /\ ppc = "write"
PendingInput == DropN(input_data, input_pos)

\* C12 (as stated). stdin is written only after poll reported it ready, with
\* a chunk strictly smaller than the write size, and never the whole
\* remaining payload when that is larger than the write size.
C12_ChunkStrictlySmaller ==
    WriteCall =>
        /\ "in" \in ready
        /\ Len(write_chunk(PendingInput)) < WRITE_SIZE
        /\ Len(PendingInput) > WRITE_SIZE => write_chunk(PendingInput) # PendingInput

\* C12 (amended). stdin is written only after poll reported it ready; the
\* chunk holds at most the write size (not strictly less), and never the
\* whole remaining payload when that is larger; the pipe takes bytes from
\* the poll loop only in that step, at most a chunk of them, in order from
\* the cursor.
C12_ChunkAtMostWriteSize ==
    /\ [](WriteCall =>
            /\ "in" \in ready
            /\ Len(write_chunk(PendingInput)) <= WRITE_SIZE
            /\ Len(PendingInput) > WRITE_SIZE => write_chunk(PendingInput) # PendingInput)
    /\ [][(backend = "poll" /\ sent_in' # sent_in) =>
            /\ WriteCall
            /\ Len(sent_in') - Len(sent_in) <= WRITE_SIZE
            /\ sent_in' = sent_in \o Take(PendingInput, Len(sent_in') - Len(sent_in))]_vars

\* The write step faces more input than one chunk carries, after an earlier
\* write has moved the cursor.
C12_Witness ==
    /\ WriteCall
    /\ "in" \in ready
    /\ input_pos > 0
    /\ Len(PendingInput) >= WRITE_SIZE
    /\ Len(input_data) > WRITE_SIZE

\* C16 (as stated). In the poll backend the input cursor never exceeds the
\* length of the input buffer.
C16_CursorWithinBuffer ==
    backend = "poll" => input_pos <= Len(input_data)

\* C16 (amended). While the stdin handle is held the cursor never exceeds
\* the length of the input buffer; once all input is written the handle is
\* gone, the buffer is released (empty) and the cursor stays at the length
\* of the payload, never to be used again.
C16_CursorWithinHeldBuffer ==
    backend = "poll" =>
        /\ stdin => (input_pos <= Len(input_data) /\ input_data = src)
        /\ (~stdin /\ "in" \in req) =>
                (input_data = << >> /\ input_pos = Len(src) /\ sent_in = src)
        /\ "in" \notin req => (input_pos = 0 /\ input_data = << >>)

\* A partial write left the cursor inside the payload, and a later call
\* goes on writing from it.
C16_Witness ==
    /\ WriteCall
    /\ stdin
    /\ 0 < input_pos
    /\ input_pos < Len(input_data)
    /\ got_out # << >>

\* C14 (as stated). In the poll backend a read fails with a timeout only when
\* a deadline was supplied: a call without a time limit never returns a
\* timeout failure, whatever events poll reports.
C14_TimeoutOnlyWithDeadline ==
    [][(backend = "poll" /\ TimeoutReturn) => time_limit]_vars

\* The child's stdin has seen the whole payload and then end-of-input.
Delivered == in_wclosed /\ sent_in = src /\ pipe["in"] = << >>

\* What the child's stdin pipe has accepted is a prefix of the payload (each
\* byte once, in order), what it still holds is the tail of that, the cursor
\* of the poll backend counts exactly the accepted bytes, and the write end
\* is closed only when the whole payload has been accepted.
StdinInOrder ==
    "in" \in req =>
        /\ sent_in = Take(src, Len(sent_in))
        /\ pipe["in"] = DropN(sent_in, Len(sent_in) - Len(pipe["in"]))
        /\ backend = "poll" => input_pos = Len(sent_in)
        /\ in_wclosed => sent_in = src

\* The write end is closed once: it stays closed and takes no further byte.
ClosedOnce ==
    [][("in" \in req /\ in_wclosed) => (in_wclosed' /\ sent_in' = sent_in)]_vars

ReceivesInTime == WorkerLoop /\ helper_set # {} /\ ~expired

EmittedAfter(s) ==
    IF ppc' = "idle"
    THEN (IF s = "out" THEN result'.out.v ELSE result'.err.v)
    ELSE (IF s = "out" THEN outvec' ELSE errvec')

\* A stored leftover changes only at the start of the next read call, which
\* puts it at the head of its own stream's output, cut again to that call's
\* quota with the rest stored anew, and nothing into the other stream.
LeftoverReplayed ==
    [][(backend = "worker" /\ leftover.some /\ leftover' # leftover) =>
        /\ ppc = "idle"
        /\ chan' = chan
        /\ EmittedAfter(leftover.ident) \o
                (IF leftover'.some THEN leftover'.data ELSE << >>) = leftover.data
        /\ leftover'.some => leftover'.ident = leftover.ident
        /\ \A s \in Outputs \ {leftover.ident} : EmittedAfter(s) = << >>]_vars

\* A leftover is stored, where none was, only when the quota cuts a received
\* chunk: the call returns the admitted prefix, filling its quota, and the
\* leftover is the rest of the chunk with the chunk's stream.
LeftoverStored ==
    [][(backend = "worker" /\ ~leftover.some /\ leftover'.some) =>
        /\ ppc = "loop"
        /\ chan # << >>
        /\ Head(chan).kind = "send_data"
        /\ leftover'.ident = Head(chan).ident
        /\ leftover'.data # << >>
        /\ ppc' = "idle"
        /\ result'.status = "ok"
        /\ Len(result'.out.v) + Len(result'.err.v) = size_limit.v
        /\ EmittedAfter(leftover'.ident) \o leftover'.data
            = (IF leftover'.ident = "out" THEN outvec ELSE errvec)
                \o Head(chan).data]_vars

\* No byte is handed to the caller twice: the captures of all calls are in
\* the order of the source, without repetition.
Ascending(seq) == \A i \in 1..Len(seq) - 1 : seq[i] < seq[i + 1]

\* C15 (as stated). Leftover replay in the worker backend: the quota cuts a
\* chunk into the admitted prefix and the stored suffix; the next call
\* replays the suffix first, splitting it again if needed; a stored leftover
\* is never overwritten by a later chunk nor requested again from the source.
C15_LeftoverReplay ==
    /\ LeftoverStored
    /\ LeftoverReplayed
    /\ [](backend = "worker" => (Ascending(got_out) /\ Ascending(got_err)))

\* The bytes of stream s in the channel.
RECURSIVE ChanBytes(_, _)
ChanBytes(c, s) ==
    IF c = << >> THEN << >>
    ELSE (IF Head(c).ident = s THEN Head(c).data ELSE << >>) \o ChanBytes(Tail(c), s)

\* The bytes the worker backend has read from the child and holds for later
\* read calls: in the channel, in the workers' unsent chunks, in the leftover.
HeldBytes ==
    Len(ChanBytes(chan, "out")) + Len(ChanBytes(chan, "err"))
        + Len(wbuf["out"]) + Len(wbuf["err"]) + Len(leftover.data)

\* C17. Backpressure bound in the worker backend: the channel never holds
\* more than one undelivered message; a reader takes bytes from its pipe
\* only when it holds no unsent chunk; a message, a pending chunk and the
\* leftover are each at most one read chunk long; so the bytes held between
\* the child and the caller never exceed one chunk for the channel, one per
\* reader worker and one for the leftover.
C17_BackpressureBound ==
    /\ [](backend = "worker" =>
            /\ Len(chan) <= ChanCap
            /\ \A i \in 1..Len(chan) : Len(chan[i].data) <= BUF_SIZE
            /\ \A s \in Outputs : Len(wbuf[s]) <= BUF_SIZE
            /\ \A s \in Outputs : wbuf[s] # << >> <=> wpc[s] = "send_data"
            /\ Len(leftover.data) <= BUF_SIZE
            /\ HeldBytes <= BUF_SIZE * (ChanCap + Cardinality(requested_streams) + 1))
    /\ [][\A s \in Outputs :
            (backend = "worker" /\ pipe'[s] # pipe[s] /\ Len(pipe'[s]) < Len(pipe[s]))
            => (wpc[s] = "read" /\ wbuf[s] = << >> /\ wbuf'[s] # << >>
                /\ wpc'[s] = "send_data")]_vars

\* No read call is running, the channel is full, both readers wait in a send
\* with a chunk in hand, and the child is blocked on a full stdout pipe.
C17_Witness ==
    /\ backend = "worker"
    /\ ppc = "idle"
    /\ Len(chan) = ChanCap
    /\ wpc["out"] = "send_data"
    /\ wpc["err"] = "send_data"
    /\ Len(pipe["out"]) = PipeCap
    /\ cpc = "run"

\* The remaining time in whole milliseconds, as a two-limb number whose
\* high limb is not reduced.
whole_millis(diff) ==
    LET a1 == diff.secs \div Limb
        a0 == diff.secs % Limb
        l == a0 * 1000 + diff.millis
    IN  Word(a1 * 1000 + l \div Limb, l % Limb)

\* C20: the timeout millisecs_until computes is 0 when the deadline has
\* passed and otherwise the remaining time in whole milliseconds, for every
\* remaining duration; the conversion neither wraps nor overflows.
C20_TimeoutIsRemaining ==
    timeout.some =>
        /\ ~timeout.v.panic
        /\ timeout.v.val =
              IF time_left.passed THEN Word(0, 0) ELSE whole_millis(time_left)
=============================================================================
